---- MODULE Spec2Model ----
(***************************************************************************)
(* Model of stock-ai-app: the Question Guard (core/ai_analyzer.py,         *)
(* review_question) and the Indicator Engine (core/indicators.py,          *)
(* compute_indicators).                                                    *)
(*                                                                         *)
(* Text is a sequence of characters; a character is a one-character string *)
(* for ASCII and the string "U+XXXX" for a CJK ideograph of that code      *)
(* point.  Python's None is a record field `null`, a float NaN a value of  *)
(* its own: `x is None` in the callers tells them apart.                   *)
(***************************************************************************)
EXTENDS Integers, Sequences, FiniteSets, TLC

VARIABLES
    question,       \* review_question argument `question`
    price_history,  \* review_question argument `price_history`
    financials,     \* review_question argument `financials`
    review,         \* what review_question returned, or NoReview before the call
    hist,           \* compute_indicators argument `hist`
    info,           \* compute_indicators argument `info`
    indicators,     \* what compute_indicators did, or NoIndicators before the call
    symbol,         \* generate_analysis argument `symbol`
    user_question,  \* generate_analysis argument `user_question`
    model,          \* generate_analysis argument `model`
    GOOGLE_API_KEY, \* the module-level key read from the environment at import
    pc,             \* where the call generate_analysis stands
    llm_calls,      \* how many times generate_content has been called
    analysis,       \* what generate_analysis returned, or NoAnalysis
    shapes,         \* gd.layout.shapes of the chart
    shapesHistory,  \* the snapshots saved by saveState
    currentIndex,   \* the snapshot that is shown
    relayouts,      \* plotly_relayout callbacks that touch shapes, not yet run
    gesture,        \* the user's current run of Undo clicks followed by Redo clicks
    analyzed,       \* st.session_state["analyzed"]
    last_symbol,    \* st.session_state["last_symbol"]
    last_period,    \* st.session_state["last_period"]
    ticker_input,   \* the text of the ticker text_input (`symbol` in main)
    period_input,   \* the choice of the period selectbox (`period` in main)
    analyze_clicked,   \* the analyse button was clicked for this run
    followup_clicked,  \* the follow-up button was clicked for this run
    followup_shown, \* the last run rendered the follow-up widgets
    run_pc,         \* where the script run of main() stands
    calls           \* the calls made so far by the current run, in order

vars ==
    <<question, price_history, financials, review, hist, info, indicators,
      symbol, user_question, model, GOOGLE_API_KEY, pc, llm_calls, analysis,
      shapes, shapesHistory, currentIndex, relayouts, gesture,
      analyzed, last_symbol, last_period, ticker_input, period_input,
      analyze_clicked, followup_clicked, followup_shown, run_pc, calls>>

guardVars == <<question, price_history, financials, review>>
indVars   == <<hist, info, indicators>>
analysisVars ==
    <<symbol, user_question, model, GOOGLE_API_KEY, pc, llm_calls, analysis>>
chartVars == <<shapes, shapesHistory, currentIndex, relayouts, gesture>>
sessionVars == <<analyzed, last_symbol, last_period>>
widgetVars == <<ticker_input, period_input, analyze_clicked, followup_clicked>>
dashVars == <<sessionVars, widgetVars, followup_shown, run_pc, calls>>

(***************************************************************************)
(* Bounds of the model                                                     *)
(***************************************************************************)
MaxTokens == 3      \* a question is at most this many tokens of Tokens
MaxBars   == 67     \* a price series has at most this many bars
MaxShapes == 2      \* the chart holds at most this many drawn shapes
MaxHistory == 5     \* shapesHistory grows to at most this many snapshots
MaxRelayouts == 2   \* at most this many plotly_relayout callbacks are queued
MaxTickerLen == 2   \* the ticker typed by the user has at most this many characters

(***************************************************************************)
(* Characters and text helpers                                             *)
(***************************************************************************)
Digits == {"0", "1", "2", "3", "4", "5", "6", "7", "8", "9"}

LowerLetters == <<"a", "b", "c", "d", "e", "f", "g", "h", "i", "j", "k", "l", "m",
                  "n", "o", "p", "q", "r", "s", "t", "u", "v", "w", "x", "y", "z">>

UpperLetters == <<"A", "B", "C", "D", "E", "F", "G", "H", "I", "J", "K", "L", "M",
                  "N", "O", "P", "Q", "R", "S", "T", "U", "V", "W", "X", "Y", "Z">>

Range(s) == {s[i] : i \in DOMAIN s}

\* the ideographs the model's texts use; every one lies in U+4E00..U+9FFF
CJK == {"U+4F30", "U+503C", "U+50F9", "U+5229", "U+5831", "U+5929", "U+5B63",
        "U+5C55", "U+5E74", "U+5EA6", "U+606F", "U+6210", "U+6536", "U+671B",
        "U+672C", "U+6BD4", "U+6BDB", "U+6C23", "U+6D41", "U+6DE8", "U+71DF",
        "U+7372", "U+73FE", "U+76CA", "U+80A1", "U+8CA1", "U+914D", "U+91D1",
        "U+9577", "U+96AA", "U+98A8"}

\* what \s matches and str.strip() strips
Whitespace == {" ", "\t", "\n", "\r", "\f"}

\* the character class [A-Za-z0-9U+4E00..U+9FFF]
AlphaNumZhClass == Range(UpperLetters) \cup Range(LowerLetters) \cup Digits \cup CJK

\* str.lower() of one character
LowerChar(c) ==
    IF c \in Range(UpperLetters)
    THEN LowerLetters[CHOOSE i \in DOMAIN UpperLetters : UpperLetters[i] = c]
    ELSE c

\* str.upper() of one character
UpperChar(c) ==
    IF c \in Range(LowerLetters)
    THEN UpperLetters[CHOOSE i \in DOMAIN LowerLetters : LowerLetters[i] = c]
    ELSE c

\* str.upper()
upper(s) == [i \in DOMAIN s |-> UpperChar(s[i])]

\* str.lower()
lower(s) == [i \in DOMAIN s |-> LowerChar(s[i])]

\* `kw in s` for strings
Contains(s, kw) ==
    \E i \in 1..(Len(s) - Len(kw) + 1) : SubSeq(s, i, i + Len(kw) - 1) = kw

\* int() of a string of decimal digits
DigitValue(c) ==
    CASE c = "0" -> 0 [] c = "1" -> 1 [] c = "2" -> 2 [] c = "3" -> 3 [] c = "4" -> 4
      [] c = "5" -> 5 [] c = "6" -> 6 [] c = "7" -> 7 [] c = "8" -> 8 [] c = "9" -> 9

RECURSIVE ParseInt(_)
ParseInt(ds) ==
    IF ds = <<>> THEN 0
    ELSE 10 * ParseInt(SubSeq(ds, 1, Len(ds) - 1)) + DigitValue(ds[Len(ds)])

\* text.replace("\r", " ").replace("\n", " ")
ReplaceNewlines(s) == [i \in DOMAIN s |-> IF s[i] \in {"\r", "\n"} THEN " " ELSE s[i]]

\* re.sub(r"\s+", " ", text): every run of whitespace becomes one space
RECURSIVE CollapseFrom(_, _)
CollapseFrom(s, i) ==
    IF i > Len(s) THEN <<>>
    ELSE IF s[i] \notin Whitespace THEN <<s[i]>> \o CollapseFrom(s, i + 1)
    ELSE IF i > 1 /\ s[i - 1] \in Whitespace THEN CollapseFrom(s, i + 1)
    ELSE <<" ">> \o CollapseFrom(s, i + 1)

CollapseWhitespace(s) == CollapseFrom(s, 1)

\* str.strip()
strip(s) ==
    LET keep == {i \in DOMAIN s : s[i] \notin Whitespace}
    IN  IF keep = {} THEN <<>>
        ELSE SubSeq(s, CHOOSE i \in keep : \A j \in keep : i <= j,
                       CHOOSE i \in keep : \A j \in keep : i >= j)

\* clean_text without the final strip()
clean_text_unstripped(text) ==
    IF text.null \/ text.chars = <<>> THEN <<>>
    ELSE CollapseWhitespace(ReplaceNewlines(text.chars))

\* clean_text: "" for None or "", else newlines to spaces, whitespace runs
\* collapsed, ends stripped
clean_text(text) ==
    IF text.null \/ text.chars = <<>> THEN <<>>
    ELSE strip(CollapseWhitespace(ReplaceNewlines(text.chars)))

(***************************************************************************)
(* Question Guard: keyword lists and the year pattern                      *)
(***************************************************************************)
FIN_KW_ZH ==
    << <<"U+71DF", "U+6536">>,
       <<"U+7372", "U+5229">>,
       <<"U+6BDB", "U+5229">>,
       <<"U+6DE8", "U+5229">>,
       <<"U+6210", "U+9577">>,
       <<"U+4F30", "U+503C">>,
       <<"U+672C", "U+76CA", "U+6BD4">>,
       <<"U+80A1", "U+50F9">>,
       <<"U+80A1", "U+606F">>,
       <<"U+914D", "U+606F">>,
       <<"U+73FE", "U+91D1", "U+6D41">>,
       <<"U+8CA1", "U+5831">>,
       <<"U+5B63", "U+5EA6">>,
       <<"U+5C55", "U+671B">>,
       <<"U+98A8", "U+96AA">> >>

FIN_KW_EN ==
    << <<"r", "e", "v", "e", "n", "u", "e">>,
       <<"p", "r", "o", "f", "i", "t">>,
       <<"m", "a", "r", "g", "i", "n">>,
       <<"g", "u", "i", "d", "a", "n", "c", "e">>,
       <<"v", "a", "l", "u", "a", "t", "i", "o", "n">>,
       <<"d", "i", "v", "i", "d", "e", "n", "d">>,
       <<"e", "p", "s">>,
       <<"c", "a", "s", "h", " ", "f", "l", "o", "w">>,
       <<"e", "a", "r", "n", "i", "n", "g", "s">>,
       <<"q", "u", "a", "r", "t", "e", "r">>,
       <<"r", "i", "s", "k">>,
       <<"g", "r", "o", "w", "t", "h">> >>

\* (19|20)\d{2} matches at position i of s
YEAR_RE_matchAt(s, i) ==
    /\ i + 3 <= Len(s)
    /\ SubSeq(s, i, i + 1) \in {<<"1", "9">>, <<"2", "0">>}
    /\ s[i + 2] \in Digits
    /\ s[i + 3] \in Digits

\* _YEAR_RE.findall(s): the pattern has one capturing group, so re.findall
\* returns that group's text (the century digits) for each non-overlapping
\* match, left to right
RECURSIVE YEAR_RE_findallFrom(_, _)
YEAR_RE_findallFrom(s, i) ==
    IF i > Len(s) THEN <<>>
    ELSE IF YEAR_RE_matchAt(s, i)
         THEN <<SubSeq(s, i, i + 1)>> \o YEAR_RE_findallFrom(s, i + 4)
         ELSE YEAR_RE_findallFrom(s, i + 1)

YEAR_RE_findall(s) == YEAR_RE_findallFrom(s, 1)

\* _YEAR_RE.search(s): the leftmost match's whole text (m.group()), <<>> if none
YEAR_RE_search(s) ==
    LET at == {i \in DOMAIN s : YEAR_RE_matchAt(s, i)}
    IN  IF at = {} THEN <<>>
        ELSE LET i == CHOOSE k \in at : \A j \in at : k <= j
             IN  SubSeq(s, i, i + 3)

(***************************************************************************)
(* Question Guard: years of the supplied data                              *)
(***************************************************************************)
\* an index entry or period label: a pandas Timestamp (with its year), the
\* missing timestamp NaT, or a plain string
Timestamp(y) == [kind |-> "Timestamp", year |-> y, chars |-> <<>>]
NaT          == [kind |-> "NaT", year |-> 0, chars |-> <<>>]
StrLabel(cs) == [kind |-> "str", year |-> 0, chars |-> cs]

\* getattr(p, "year", None): an int for a Timestamp, float nan for NaT, None
\* for an object without the attribute (a str)
getattr_year(p) ==
    CASE p.kind = "Timestamp" -> [tag |-> "int", val |-> p.year]
      [] p.kind = "NaT"       -> [tag |-> "nan", val |-> 0]
      [] OTHER                -> [tag |-> "None", val |-> 0]

\* `if y:` -- None and 0 are falsy, nan is truthy
Truthy(y) == y.tag = "nan" \/ (y.tag = "int" /\ y.val # 0)

\* int(y) raises ValueError for nan
IntRaises(y) == y.tag = "nan"

\* the four decimal digits of a year
YearChars(y) ==
    LET d == <<"0", "1", "2", "3", "4", "5", "6", "7", "8", "9">>
    IN  <<d[((y \div 1000) % 10) + 1], d[((y \div 100) % 10) + 1],
          d[((y \div 10) % 10) + 1], d[(y % 10) + 1]>>

\* str(p); a Timestamp prints its date, year first
str(p) ==
    CASE p.kind = "str" -> p.chars
      [] p.kind = "NaT" -> <<"N", "a", "T">>
      [] OTHER          -> YearChars(p.year) \o <<"-">>

\* lines 245-250: the years of price_history.index; the try wraps the whole
\* loop, so the first entry whose int(y) raises ends the collection
RECURSIVE IndexYearsFrom(_, _)
IndexYearsFrom(idx, i) ==
    IF i > Len(idx) THEN <<>>
    ELSE LET y == getattr_year(idx[i])
         IN  IF ~Truthy(y) THEN IndexYearsFrom(idx, i + 1)
             ELSE IF IntRaises(y) THEN <<>>
             ELSE <<y.val>> \o IndexYearsFrom(idx, i + 1)

\* lines 243-250
PriceYears(ph) ==
    IF ~ph.null /\ ph.has_index THEN IndexYearsFrom(ph.index, 1) ELSE <<>>

\* lines 256-266: the years one period label contributes.  The fallback scan of
\* str(p) sits in the except branch: it runs only when int(y) raised.
PeriodYears(p) ==
    LET y == getattr_year(p)
    IN  IF ~Truthy(y) THEN <<>>
        ELSE IF ~IntRaises(y) THEN <<y.val>>
        ELSE LET m == YEAR_RE_search(str(p))
             IN  IF m # <<>> THEN <<ParseInt(m)>> ELSE <<>>

RECURSIVE PeriodsYearsFrom(_, _)
PeriodsYearsFrom(ps, i) ==
    IF i > Len(ps) THEN <<>>
    ELSE PeriodYears(ps[i]) \o PeriodsYearsFrom(ps, i + 1)

\* line 254: `inc.empty` is read outside any try, so a table that is not a
\* DataFrame (no attribute `empty`) raises AttributeError
FinancialsRaise(fin) ==
    /\ ~fin.null /\ fin.dict /\ "income_q" \in fin.keys
    /\ ~fin.income_q.null /\ ~fin.income_q.dataframe

\* lines 252-266.  financials: None, a dict with a set of keys, or another
\* object; income_q is None, a DataFrame of nrows rows with or without a
\* "period" column, or another object
FinancialYears(fin) ==
    IF fin.null \/ ~fin.dict \/ fin.keys = {} THEN <<>>
    ELSE IF "income_q" \notin fin.keys THEN <<>>
    ELSE LET inc == fin.income_q
         IN  IF ~inc.null /\ inc.nrows > 0 /\ inc.has_period
             THEN PeriodsYearsFrom(inc.period, 1)
             ELSE <<>>

SeqMin(s) == CHOOSE x \in Range(s) : \A y \in Range(s) : x <= y
SeqMax(s) == CHOOSE x \in Range(s) : \A y \in Range(s) : x >= y

\* sorted(set(xs))
RECURSIVE SortedSet(_)
SortedSet(S) ==
    IF S = {} THEN <<>>
    ELSE LET m == CHOOSE x \in S : \A y \in S : x <= y
         IN  <<m>> \o SortedSet(S \ {m})

(***************************************************************************)
(* Question Guard: the verdict                                             *)
(***************************************************************************)
\* A text of a verdict is a sequence of parts: a fixed sentence, a separator,
\* or the year-range sentence with the values its f-string prints.
Part(k) == [kind |-> k, years |-> <<>>, lo |-> 0, hi |-> 0]

MSG_EMPTY     == <<Part("msg_empty")>>          \* line 198
MSG_TOO_SHORT == <<Part("msg_too_short")>>      \* line 207
MSG_GIBBERISH == <<Part("msg_gibberish")>>      \* line 217
MSG_NO_FIN_KW == <<Part("msg_no_fin_kw")>>      \* lines 231-232
HINT_NO_FIN_KW == <<Part("hint_no_fin_kw")>>    \* lines 235-236
HINT_YEAR_RANGE == <<Part("hint_year_range")>>  \* lines 277-278

\* lines 273-274: the f-string prints sorted(set(out_of_range)), min_y, max_y
MSG_YEAR_RANGE(years, min_y, max_y) ==
    <<[kind |-> "msg_year_range", years |-> years, lo |-> min_y, hi |-> max_y]>>

\* sep.join(texts)
RECURSIVE Join(_, _)
Join(sep, texts) ==
    IF texts = <<>> THEN <<>>
    ELSE IF Len(texts) = 1 THEN texts[1]
    ELSE texts[1] \o sep \o Join(sep, Tail(texts))

Verdict(level, reason, message, system_hint) ==
    [level |-> level, reason |-> reason, message |-> message,
     system_hint |-> system_hint]

\* the call ends with an exception instead of a verdict
Raised(exc) == Verdict("raised", exc, <<>>, <<>>)

\* line 212: re.findall(r"[A-Za-z0-9U+4E00..U+9FFF]", q)
alpha_num_zh(q) == SelectSeq(q, LAMBDA c : c \in AlphaNumZhClass)

\* IsGibberish with the comparison written `<=`
IsGibberish_inclusive(q) == 20 * Len(alpha_num_zh(q)) <= 7 * Len(q)

\* line 213: len(alpha_num_zh) / len(q) < 0.35, compared exactly (0.35 = 7/20;
\* the float quotient of two small integers rounds to the side it lies on)
IsGibberish(q) == 20 * Len(alpha_num_zh(q)) < 7 * Len(q)

\* has_fin_kw that tests the English list against q, not q.lower()
has_fin_kw_case_sensitive(q) ==
    \/ \E k \in DOMAIN FIN_KW_ZH : Contains(q, FIN_KW_ZH[k])
    \/ \E k \in DOMAIN FIN_KW_EN : Contains(q, FIN_KW_EN[k])

\* lines 222-224
has_fin_kw(q) ==
    \/ \E k \in DOMAIN FIN_KW_ZH : Contains(q, FIN_KW_ZH[k])
    \/ \E k \in DOMAIN FIN_KW_EN : Contains(lower(q), FIN_KW_EN[k])

\* line 240: [int(y) for y in _YEAR_RE.findall(q)]
years_in_q(q) ==
    LET found == YEAR_RE_findall(q)
    IN  [i \in DOMAIN found |-> ParseInt(found[i])]

\* lines 242-266
data_years(ph, fin) == PriceYears(ph) \o FinancialYears(fin)

\* line 270
out_of_range(q, ph, fin) ==
    LET dy == data_years(ph, fin)
    IN  SelectSeq(years_in_q(q), LAMBDA y : y < SeqMin(dy) \/ y > SeqMax(dy))

\* lines 268-271: the year-range warning fires
YearWarning(q, ph, fin) ==
    /\ data_years(ph, fin) # <<>>
    /\ years_in_q(q) # <<>>
    /\ out_of_range(q, ph, fin) # <<>>

\* warn_msgs with the year-range entry appended before the keyword entry
warn_msgs_year_first(q, ph, fin) ==
    (IF YearWarning(q, ph, fin)
     THEN <<MSG_YEAR_RANGE(SortedSet(Range(out_of_range(q, ph, fin))),
                           SeqMin(data_years(ph, fin)),
                           SeqMax(data_years(ph, fin)))>>
     ELSE <<>>)
    \o (IF ~has_fin_kw(q) THEN <<MSG_NO_FIN_KW>> ELSE <<>>)

\* warn_msgs that takes 0 .. 0 for the range of no data years (min and max
\* with default=0) instead of skipping the check
warn_msgs_default_range(q, ph, fin) ==
    (IF ~has_fin_kw(q) THEN <<MSG_NO_FIN_KW>> ELSE <<>>)
    \o (IF years_in_q(q) # <<>> /\ data_years(ph, fin) = <<>>
        THEN <<MSG_YEAR_RANGE(SortedSet(Range(years_in_q(q))), 0, 0)>>
        ELSE IF YearWarning(q, ph, fin)
        THEN <<MSG_YEAR_RANGE(SortedSet(Range(out_of_range(q, ph, fin))),
                              SeqMin(data_years(ph, fin)),
                              SeqMax(data_years(ph, fin)))>>
        ELSE <<>>)

\* lines 226-279
warn_msgs(q, ph, fin) ==
    (IF ~has_fin_kw(q) THEN <<MSG_NO_FIN_KW>> ELSE <<>>)
    \o (IF YearWarning(q, ph, fin)
        THEN <<MSG_YEAR_RANGE(SortedSet(Range(out_of_range(q, ph, fin))),
                              SeqMin(data_years(ph, fin)),
                              SeqMax(data_years(ph, fin)))>>
        ELSE <<>>)

system_hints(q, ph, fin) ==
    (IF ~has_fin_kw(q) THEN <<HINT_NO_FIN_KW>> ELSE <<>>)
    \o (IF YearWarning(q, ph, fin) THEN <<HINT_YEAR_RANGE>> ELSE <<>>)

\* line 194: `if not q`
IsEmpty(qc) == qc = <<>>

\* TooShort with the bound written `<`
TooShort_strict(qc) == Len(qc) < 3

\* line 203
TooShort(qc) == Len(qc) <= 3

\* review_question that rejects a question whose years lie outside the data
review_question_rejects_out_of_range(qu, ph, fin) ==
    LET qc == clean_text(qu)
    IN  IF IsEmpty(qc) THEN Verdict("reject", "empty", MSG_EMPTY, <<>>)
        ELSE IF TooShort(qc) THEN Verdict("reject", "too_short", MSG_TOO_SHORT, <<>>)
        ELSE IF IsGibberish(qc) THEN Verdict("reject", "gibberish", MSG_GIBBERISH, <<>>)
        ELSE IF FinancialsRaise(fin) THEN Raised("AttributeError")
        ELSE IF YearWarning(qc, ph, fin)
             THEN Verdict("reject", "out_of_range", Join(<<Part("\n\n")>>, warn_msgs(qc, ph, fin)), <<>>)
        ELSE LET msgs == warn_msgs(qc, ph, fin)
             IN  IF msgs = <<>> THEN Verdict("ok", "pass", <<>>, <<>>)
                 ELSE Verdict("warn", "warn",
                              Join(<<Part("\n\n")>>, msgs),
                              Join(<<Part("\n")>>, system_hints(qc, ph, fin)))

\* lines 178-294 (the `symbol` argument is never read)
review_question(qu, ph, fin) ==
    LET qc == clean_text(qu)
    IN  IF IsEmpty(qc) THEN Verdict("reject", "empty", MSG_EMPTY, <<>>)
        ELSE IF TooShort(qc) THEN Verdict("reject", "too_short", MSG_TOO_SHORT, <<>>)
        ELSE IF IsGibberish(qc) THEN Verdict("reject", "gibberish", MSG_GIBBERISH, <<>>)
        ELSE IF FinancialsRaise(fin) THEN Raised("AttributeError")
        ELSE LET msgs == warn_msgs(qc, ph, fin)
             IN  IF msgs = <<>> THEN Verdict("ok", "pass", <<>>, <<>>)
                 ELSE Verdict("warn", "warn",
                              Join(<<Part("\n\n")>>, msgs),
                              Join(<<Part("\n")>>, system_hints(qc, ph, fin)))

(***************************************************************************)
(* Indicator Engine                                                        *)
(***************************************************************************)
OneMonthBars   == 22    \* the 22 of lines 10-11
ThreeMonthBars == 66    \* the 66 of lines 15-16, 21 and 26

\* A value of the result: None, float nan, a number num/den, or the sample
\* standard deviation of a sample (kept as the sample it is taken of).
None        == [tag |-> "None", num |-> 0, den |-> 1]
NaN         == [tag |-> "nan", num |-> 0, den |-> 1]
Num(n)      == [tag |-> "num", num |-> n, den |-> 1]
Ratio(a, b) == [tag |-> "num", num |-> a, den |-> b]
Std(sample) == [tag |-> "std", sample |-> sample]

\* hist: a DataFrame of `len` rows whose columns are `columns`; an absent
\* column holds no values
NoHist == [len |-> 0, columns |-> {}, Close |-> <<>>, High |-> <<>>, Low |-> <<>>]

\* info: a dict, a function from its keys to their values
NoInfo == <<>>

\* DataFrame.empty: no rows, or no columns
empty(h) == h.len = 0 \/ h.columns = {}

\* series.iloc[-n]
iloc_neg(s, n) == s[Len(s) - n + 1]

\* series.tail(n)
tail(s, n) == SubSeq(s, IF Len(s) > n THEN Len(s) - n + 1 ELSE 1, Len(s))

\* series.max() and series.min(): nan for a series of no values
series_max(s) == IF s = <<>> THEN NaN ELSE Num(SeqMax(s))
series_min(s) == IF s = <<>> THEN NaN ELSE Num(SeqMin(s))

\* series.pct_change(), without its leading nan (std() skips it)
pct_change(s) == [i \in 1..(Len(s) - 1) |-> Ratio(s[i + 1] - s[i], s[i])]

\* info.get(key, 0): an absent key reads as zero
info_get_zero_default(inf, key) == IF key \in DOMAIN inf THEN inf[key] ELSE Num(0)

\* info.get(key)
info_get(inf, key) == IF key \in DOMAIN inf THEN inf[key] ELSE None

\* hist["Close"] raises KeyError when the frame has no such column; it is
\* evaluated on line 5 (frame not empty), line 11 (len >= 22), line 16
\* (len >= 66) and line 32 (len > 2)
KeyErrorRaised(h) ==
    /\ "Close" \notin h.columns
    /\ \/ ~empty(h)
       \/ h.len >= OneMonthBars
       \/ h.len >= ThreeMonthBars
       \/ h.len > 2

\* line 5
latest_price(h) == IF ~empty(h) THEN Num(h.Close[h.len]) ELSE None

\* lookback_return with the length test written `>`
lookback_return_strict(h, n) ==
    IF h.len > n
    THEN Ratio(latest_price(h).num - iloc_neg(h.Close, n), iloc_neg(h.Close, n))
    ELSE None

\* lines 10-18: latest_price / hist["Close"].iloc[-n] - 1, or None
lookback_return(h, n) ==
    IF h.len >= n
    THEN Ratio(latest_price(h).num - iloc_neg(h.Close, n), iloc_neg(h.Close, n))
    ELSE None

\* high3m that answers None for a frame of no rows
high3m_none_when_empty(h) ==
    IF "High" \in h.columns /\ h.len > 0
    THEN series_max(tail(h.High, ThreeMonthBars)) ELSE None

\* high3m taken over the whole series
high3m_whole_series(h) ==
    IF "High" \in h.columns THEN series_max(h.High) ELSE None

\* lines 20-23
high3m(h) ==
    IF "High" \in h.columns THEN series_max(tail(h.High, ThreeMonthBars)) ELSE None

\* lines 25-28
low3m(h) ==
    IF "Low" \in h.columns THEN series_min(tail(h.Low, ThreeMonthBars)) ELSE None

\* volatility3m restricted to the last 66 bars, like the other 3-month fields
volatility3m_last_66(h) ==
    IF h.len > 2 THEN Std(pct_change(tail(h.Close, ThreeMonthBars))) ELSE None

\* lines 31-33
volatility3m(h) == IF h.len > 2 THEN Std(pct_change(h.Close)) ELSE None

NoValuation ==
    [latestPrice |-> None, trailingPE |-> None, forwardPE |-> None,
     priceToBook |-> None]

NoMomentum ==
    [oneMonthReturn |-> None, threeMonthReturn |-> None, high3m |-> None,
     low3m |-> None, volatility3m |-> None]

NoIndicators == [status |-> "none", valuation |-> NoValuation, momentum |-> NoMomentum]

\* lines 4-46: the call returns the two mappings, or raises KeyError
compute_indicators(h, inf) ==
    IF KeyErrorRaised(h)
    THEN [status |-> "KeyError", valuation |-> NoValuation, momentum |-> NoMomentum]
    ELSE [status |-> "returned",
          valuation |->
              [latestPrice |-> latest_price(h),
               trailingPE  |-> info_get(inf, "trailingPE"),
               forwardPE   |-> info_get(inf, "forwardPE"),
               priceToBook |-> info_get(inf, "priceToBook")],
          momentum |->
              [oneMonthReturn   |-> lookback_return(h, OneMonthBars),
               threeMonthReturn |-> lookback_return(h, ThreeMonthBars),
               high3m           |-> high3m(h),
               low3m            |-> low3m(h),
               volatility3m     |-> volatility3m(h)]]


(***************************************************************************)
(* Question Guard: the requests of the model                               *)
(***************************************************************************)
\* the pieces a question is typed from
Tokens ==
    { <<"2", "0", "3", "0">>,
      <<"2", "0", "2", "3">>,
      <<"U+71DF", "U+6536">>,                   \* a keyword of _FIN_KW_ZH
      <<"e", "p", "s">>,                        \* a keyword of _FIN_KW_EN
      <<"E", "P", "S">>,                        \* the same in upper case
      <<"U+5929", "U+6C23">>,                   \* ideographs, no keyword
      <<" ">>,
      <<"\r", "\n">>,                           \* a line break of a text area
      <<"!">>,
      <<"!", "!", "!", "!", "!", "!", "!", "!", "!", "!", "!", "!", "!">> }

RECURSIVE Flatten(_)
Flatten(ts) == IF ts = <<>> THEN <<>> ELSE ts[1] \o Flatten(Tail(ts))

NoneText == [null |-> TRUE, chars |-> <<>>]
Text(cs) == [null |-> FALSE, chars |-> cs]

QuestionsUpTo(k) ==
    {NoneText} \cup
    {Text(Flatten(ts)) : ts \in UNION {[1..n -> Tokens] : n \in 0..k}}

Questions == QuestionsUpTo(MaxTokens)

NoPriceHistory == [null |-> TRUE, has_index |-> FALSE, index |-> <<>>]
Frame(idx)     == [null |-> FALSE, has_index |-> TRUE, index |-> idx]

PriceHistories ==
    { NoPriceHistory,
      Frame(<<Timestamp(2020), Timestamp(2021), Timestamp(2022), Timestamp(2023),
              Timestamp(2024)>>) }

NoFrame ==
    [null |-> TRUE, dataframe |-> FALSE, nrows |-> 0, has_period |-> FALSE,
     period |-> <<>>]
IncomeQ(ps) ==
    [null |-> FALSE, dataframe |-> TRUE, nrows |-> Len(ps), has_period |-> TRUE,
     period |-> ps]

NoFinancials == [null |-> TRUE, dict |-> FALSE, keys |-> {}, income_q |-> NoFrame]
Statements(inc) ==
    [null |-> FALSE, dict |-> TRUE, keys |-> {"income_q"}, income_q |-> inc]

FinancialsInputs ==
    { NoFinancials,
      Statements(IncomeQ(<<Timestamp(2025), Timestamp(2024)>>)),
      Statements(IncomeQ(<<StrLabel(<<"2", "0", "2", "5", "-", "Q", "1">>)>>)),
      Statements(IncomeQ(<<NaT, Timestamp(2019)>>)) }

\* the statements a follow-up question usually comes with: none, or the
\* income table with dated periods
GuardFinancials ==
    { NoFinancials,
      Statements(IncomeQ(<<Timestamp(2025), Timestamp(2024)>>)) }

\* every shape of the statements argument: the inputs above, an empty dict, a
\* dict without the income table, an income table that is None, an empty
\* DataFrame, a DataFrame without a "period" column, a table that is a list
\* of records instead of a DataFrame, and a list instead of a dict
StatementShapes ==
    FinancialsInputs \cup
    { [null |-> FALSE, dict |-> TRUE, keys |-> {}, income_q |-> NoFrame],
      [null |-> FALSE, dict |-> TRUE, keys |-> {"balance_q"}, income_q |-> NoFrame],
      Statements(NoFrame),
      Statements([null |-> FALSE, dataframe |-> TRUE, nrows |-> 0,
                  has_period |-> FALSE, period |-> <<>>]),
      Statements([null |-> FALSE, dataframe |-> TRUE, nrows |-> 2,
                  has_period |-> FALSE, period |-> <<>>]),
      Statements([null |-> FALSE, dataframe |-> FALSE, nrows |-> 1,
                  has_period |-> TRUE,
                  period |-> <<StrLabel(<<"2", "0", "2", "5", "-", "Q", "1">>)>>]),
      [null |-> FALSE, dict |-> FALSE, keys |-> {}, income_q |-> NoFrame] }

NoReview == Verdict("none", "none", <<>>, <<>>)


(***************************************************************************)
(* AI analysis: generate_analysis and its rule-based template              *)
(***************************************************************************)
\* truth value of a str | None
StrTruthy(t) == ~t.null /\ t.chars # <<>>

\* a / b rounded to the nearest integer, b > 0
RoundDiv(a, b) ==
    IF a >= 0 THEN ((2 * a) + b) \div (2 * b) ELSE 0 - (((2 * (0 - a)) + b) \div (2 * b))

\* lines 74-77: "N/A", or x * 100 printed with two decimals and a % sign
\* (kept as the number of hundredths of a percent)
fmt_pct(x) ==
    IF x = None THEN [tag |-> "N/A", hundredths |-> 0]
    ELSE IF x.tag = "nan" THEN [tag |-> "nan%", hundredths |-> 0]
    ELSE [tag |-> "pct", hundredths |-> RoundDiv(10000 * x.num, x.den)]

\* lines 79-86: the wording of the 3-month trend (x > 0.05, x < -0.05)
trend(three_m) ==
    IF three_m.tag = "num"
    THEN IF 20 * three_m.num > three_m.den THEN "rising"
         ELSE IF 20 * three_m.num < 0 - three_m.den THEN "falling"
         ELSE "sideways"
    ELSE IF three_m.tag = "nan" THEN "sideways"
    ELSE "-"

\* line 88
question_part(uq) == IF StrTruthy(uq) THEN uq.chars ELSE <<>>

\* lines 59-118: the template text, as the values printed into it
rule_based_stock_analysis(sym, ind, uq) ==
    [kind          |-> "template",
     symbol        |-> sym,
     latest_price  |-> ind.valuation.latestPrice,
     pe            |-> ind.valuation.trailingPE,
     fpe           |-> ind.valuation.forwardPE,
     one_m         |-> fmt_pct(ind.momentum.oneMonthReturn),
     three_m       |-> fmt_pct(ind.momentum.threeMonthReturn),
     trend         |-> trend(ind.momentum.threeMonthReturn),
     question_part |-> question_part(uq),
     text          |-> <<>>]

\* line 53: (resp.text or "").strip()
llm_text(resp) ==
    [kind          |-> "llm",
     symbol        |-> "",
     latest_price  |-> None,
     pe            |-> None,
     fpe           |-> None,
     one_m         |-> fmt_pct(None),
     three_m       |-> fmt_pct(None),
     trend         |-> "-",
     question_part |-> <<>>,
     text          |-> strip(IF resp.null THEN <<>> ELSE resp.chars)]

NoAnalysis == [kind |-> "none"]

\* no analysis request is in progress
AnalysisIdle ==
    /\ symbol = ""
    /\ user_question = NoneText
    /\ model = NoneText
    /\ GOOGLE_API_KEY = NoneText
    /\ pc = "idle"
    /\ llm_calls = 0
    /\ analysis = NoAnalysis

(***************************************************************************)
(* Chart drawing history: the script of render_pro_chart                   *)
(***************************************************************************)
\* JSON.stringify(shapes) and JSON.parse(s): a snapshot is the text of the
\* array, equal for equal arrays only
JSON_stringify(shs) == [json |-> shs]
JSON_parse(s) == s.json

\* lines 443-445: gd.layout.shapes || []
getCurrentShapes(shs) == shs

\* lines 454-464: the history and index after saveState()
saveState(shs, h, i) ==
    LET s == JSON_stringify(getCurrentShapes(shs))
    IN  IF Len(h) = 0 \/ h[Len(h)] # s
        THEN LET cut == IF i < Len(h) - 1 THEN SubSeq(h, 1, i + 1) ELSE h
             IN  [history |-> Append(cut, s), index |-> Len(cut)]
        ELSE [history |-> h, index |-> i]

\* lines 447-452: the shapes shown by applyShapesFromHistory(), which calls
\* Plotly.relayout when the index is within the history
applies(h, i) == i >= 0 /\ i < Len(h)

\* the user is not in a run of Undo / Redo clicks
NoGesture == [undos |-> 0, redos |-> 0, depth |-> 0, before |-> <<>>, settled |-> TRUE]

\* the chart is not on the page: the values of lines 440-441
ChartIdle ==
    /\ shapes = <<>>
    /\ shapesHistory = <<>>
    /\ currentIndex = -1
    /\ relayouts = 0
    /\ gesture = NoGesture

(***************************************************************************)
(* Dashboard: session state and the script run of main()                   *)
(***************************************************************************)
\* the options of the period selectbox
Periods == {"3mo", "6mo", "1y"}

\* a call made by the run: the function, the question it is given and the
\* guard_hint (None unless passed)
NoHint == [null |-> TRUE, parts |-> <<>>]
Hint(parts) == [null |-> FALSE, parts |-> parts]
Call(fn, uq, hint) == [fn |-> fn, user_question |-> uq, guard_hint |-> hint]

\* the question as typed, the `question` argument of review_question
typed_question(q) == [kind |-> "typed", period |-> "", q |-> q]

\* lines 722-727: main_question, a fixed text around the period
main_question(period) == [kind |-> "main", period |-> period, q |-> <<>>]

\* lines 775-779: follow_up_question, a fixed text around the period and q
follow_up_question(period, q) == [kind |-> "follow_up", period |-> period, q |-> q]

\* no browser session is open: the values of lines 122-125 and no run
DashIdle ==
    /\ analyzed = FALSE
    /\ last_symbol = <<>>
    /\ last_period = "3mo"
    /\ ticker_input = <<>>
    /\ period_input = "3mo"
    /\ analyze_clicked = FALSE
    /\ followup_clicked = FALSE
    /\ followup_shown = FALSE
    /\ run_pc = "none"
    /\ calls = <<>>

\* no Indicator Engine request is in progress
IndicatorIdle == hist = NoHist /\ info = NoInfo /\ indicators = NoIndicators

\* a follow-up question arrives with the data of the analysed symbol
InitGuard ==
    /\ question \in Questions
    /\ price_history \in PriceHistories
    /\ financials \in GuardFinancials
    /\ review = NoReview
    /\ IndicatorIdle
    /\ AnalysisIdle
    /\ ChartIdle
    /\ DashIdle

\* the call review_question(question, symbol, price_history, financials)
ReviewQuestion ==
    /\ review = NoReview
    /\ review' = review_question(question, price_history, financials)
    /\ UNCHANGED <<dashVars, chartVars, question, price_history, financials, indVars, analysisVars>>

NextGuard == ReviewQuestion

SpecGuard == InitGuard /\ [][NextGuard]_vars

\* a follow-up question arrives with statements of any shape
InitStatements ==
    /\ question \in QuestionsUpTo(MaxTokens - 1)
    /\ price_history \in PriceHistories
    /\ financials \in StatementShapes
    /\ review = NoReview
    /\ IndicatorIdle
    /\ AnalysisIdle
    /\ ChartIdle
    /\ DashIdle

SpecStatements == InitStatements /\ [][NextGuard]_vars

\* the cleaned question of the request: the `q` of review_question
cleaned == clean_text(question)

Reviewed == review # NoReview

(***************************************************************************)
(* Indicator Engine: the requests of the model                             *)
(***************************************************************************)
Columns == {"Close", "High", "Low"}

\* A series is flat at 100 except for one bar, the k-th from the end, that
\* closes at another price; High and Low lie 5 above and below Close.
OddOffsets == {1, 2, 21, 22, 23, 65, 66, 67, 68}
OddPrices  == {50, 200}

CloseAt(len, k, price, i) == IF i = len - k + 1 THEN price ELSE 100

Bars(len, k, price, cols) ==
    [len     |-> len,
     columns |-> cols,
     Close   |-> IF "Close" \in cols
                 THEN [i \in 1..len |-> CloseAt(len, k, price, i)] ELSE <<>>,
     High    |-> IF "High" \in cols
                 THEN [i \in 1..len |-> CloseAt(len, k, price, i) + 5] ELSE <<>>,
     Low     |-> IF "Low" \in cols
                 THEN [i \in 1..len |-> CloseAt(len, k, price, i) - 5] ELSE <<>>]

Histories ==
    {Bars(len, k, price, cols) :
        len \in 0..MaxBars, k \in OddOffsets, price \in OddPrices,
        cols \in SUBSET Columns}

InfoValue(key) ==
    CASE key = "trailingPE"  -> Num(25)
      [] key = "forwardPE"   -> Num(20)
      [] key = "priceToBook" -> Num(3)
      [] OTHER               -> Num(1)

Infos ==
    {[key \in keys |-> InfoValue(key)] :
        keys \in { {}, {"trailingPE"}, {"forwardPE", "priceToBook", "marketCap"},
                   {"trailingPE", "forwardPE", "priceToBook"} }}

\* no Question Guard request is in progress
GuardIdle ==
    /\ question = NoneText
    /\ price_history = NoPriceHistory
    /\ financials = NoFinancials
    /\ review = NoReview

\* an analysis request arrives with the fetched price history and fundamentals
InitIndicators ==
    /\ hist \in Histories
    /\ info \in Infos
    /\ indicators = NoIndicators
    /\ GuardIdle
    /\ AnalysisIdle
    /\ ChartIdle
    /\ DashIdle

\* a call that appends its derived column to the caller's frame and stores
\* its result in the caller's mapping
ComputeIndicators_in_place ==
    /\ indicators = NoIndicators
    /\ indicators' = compute_indicators(hist, info)
    /\ hist' = [hist EXCEPT !.columns = @ \cup {"Return"}]
    /\ info' = [key \in DOMAIN info \cup {"latestPrice"} |->
                   IF key \in DOMAIN info THEN info[key] ELSE latest_price(hist)]
    /\ UNCHANGED <<dashVars, chartVars, guardVars, analysisVars>>

\* the call compute_indicators(hist, info)
ComputeIndicators ==
    /\ indicators = NoIndicators
    /\ indicators' = compute_indicators(hist, info)
    /\ UNCHANGED <<dashVars, chartVars, hist, info, guardVars, analysisVars>>

NextIndicators == ComputeIndicators

SpecIndicators == InitIndicators /\ [][NextIndicators]_vars

Computed == indicators # NoIndicators
Returned == indicators.status = "returned"

(***************************************************************************)
(* AI analysis: the requests of the model                                  *)
(***************************************************************************)
Symbols == {"AAPL", "TSM"}

\* str | None arguments: None, the empty string, a text
UserQuestions == {NoneText, Text(<<>>), Text(<<"e", "p", "s", "?">>)}
Models == {NoneText, Text(<<>>), Text(<<"g", "e", "m", "i", "n", "i">>)}
ApiKeys == {NoneText, Text(<<>>), Text(<<"k", "e", "y">>)}

\* resp.text of the reply: None, empty, or a text with surrounding whitespace
LlmReplies == {NoneText, Text(<<>>), Text(<<" ", "o", "k", "\n">>)}

\* the indicators of a series that rose, fell or stayed flat over 66 bars,
\* and of one too short for the 3-month return, with and without fundamentals
AnalysisIndicators ==
    {compute_indicators(h, inf) :
        h \in {Bars(ThreeMonthBars, ThreeMonthBars, 50, Columns),
               Bars(ThreeMonthBars, ThreeMonthBars, 200, Columns),
               Bars(ThreeMonthBars, 1, 100, Columns),
               Bars(OneMonthBars, OneMonthBars, 200, Columns)},
        inf \in {NoInfo,
                 [key \in {"trailingPE", "forwardPE", "priceToBook"} |-> InfoValue(key)]}}

\* a call generate_analysis(symbol, indicators, price_history, user_question,
\* model) starts, with the key the module read at import
InitAnalysis ==
    /\ symbol \in Symbols
    /\ user_question \in UserQuestions
    /\ model \in Models
    /\ GOOGLE_API_KEY \in ApiKeys
    /\ indicators \in AnalysisIndicators
    /\ hist = NoHist /\ info = NoInfo
    /\ GuardIdle
    /\ pc = "start"
    /\ llm_calls = 0
    /\ analysis = NoAnalysis
    /\ ChartIdle
    /\ DashIdle

\* lines 310-311: no model or no key, the template is returned at once
Fallback ==
    /\ pc = "start"
    /\ model.null \/ ~StrTruthy(GOOGLE_API_KEY)
    /\ analysis' = rule_based_stock_analysis(symbol, indicators, user_question)
    /\ pc' = "done"
    /\ UNCHANGED <<dashVars, chartVars, guardVars, indVars, symbol, user_question, model,
                   GOOGLE_API_KEY, llm_calls>>

\* lines 373-374 and 45-52: _call_llm checks the key again, builds the
\* GenerativeModel (which may raise) and calls generate_content once
CallLLM ==
    /\ pc = "start"
    /\ ~(model.null \/ ~StrTruthy(GOOGLE_API_KEY))
    /\ \E built \in BOOLEAN :
          IF ~StrTruthy(GOOGLE_API_KEY) \/ ~built
          THEN pc' = "raised" /\ llm_calls' = llm_calls
          ELSE pc' = "calling" /\ llm_calls' = llm_calls + 1
    /\ UNCHANGED <<dashVars, chartVars, guardVars, indVars, symbol, user_question, model,
                   GOOGLE_API_KEY, analysis>>

\* lines 52-53: generate_content returns a reply
LLMReturns ==
    /\ pc = "calling"
    /\ \E resp \in LlmReplies : analysis' = llm_text(resp)
    /\ pc' = "done"
    /\ UNCHANGED <<dashVars, chartVars, guardVars, indVars, symbol, user_question, model,
                   GOOGLE_API_KEY, llm_calls>>

\* line 52: generate_content raises
LLMRaises ==
    /\ pc = "calling"
    /\ pc' = "raised"
    /\ UNCHANGED <<dashVars, chartVars, guardVars, indVars, symbol, user_question, model,
                   GOOGLE_API_KEY, llm_calls, analysis>>

\* the except branch that answers with the template but drops the question
OnLLMFailure_without_question ==
    /\ pc = "raised"
    /\ analysis' = rule_based_stock_analysis(symbol, indicators, NoneText)
    /\ pc' = "done"
    /\ UNCHANGED <<dashVars, chartVars, guardVars, indVars, symbol, user_question, model,
                   GOOGLE_API_KEY, llm_calls>>

\* lines 375-376: except Exception, the template is returned
OnLLMFailure ==
    /\ pc = "raised"
    /\ analysis' = rule_based_stock_analysis(symbol, indicators, user_question)
    /\ pc' = "done"
    /\ UNCHANGED <<dashVars, chartVars, guardVars, indVars, symbol, user_question, model,
                   GOOGLE_API_KEY, llm_calls>>

NextAnalysis == Fallback \/ CallLLM \/ LLMReturns \/ LLMRaises \/ OnLLMFailure

SpecAnalysis == InitAnalysis /\ [][NextAnalysis]_vars

(***************************************************************************)
(* Chart drawing history: the events of the model                          *)
(***************************************************************************)
\* the shapes a user draws
ShapeIds == {"line", "path"}

\* the chart is rendered and line 466 has saved the initial state
InitChart ==
    /\ shapes = <<>>
    /\ shapesHistory = saveState(<<>>, <<>>, -1).history
    /\ currentIndex = saveState(<<>>, <<>>, -1).index
    /\ relayouts = 0
    /\ gesture = NoGesture
    /\ GuardIdle
    /\ IndicatorIdle
    /\ AnalysisIdle
    /\ DashIdle

\* room for n more snapshots besides those the queued callbacks may save
Room(n) == Len(shapesHistory) + relayouts + n <= MaxHistory

\* the user draws a shape: Plotly adds it to the layout and emits
\* plotly_relayout with a `shapes[...]` key
Draw ==
    /\ Len(shapes) < MaxShapes /\ relayouts < MaxRelayouts /\ Room(1)
    /\ \E x \in ShapeIds : shapes' = Append(shapes, x)
    /\ relayouts' = relayouts + 1
    /\ gesture' = NoGesture
    /\ UNCHANGED <<dashVars, shapesHistory, currentIndex, guardVars, indVars, analysisVars>>

\* the user erases a shape with the eraseshape tool
Erase ==
    /\ shapes # <<>> /\ relayouts < MaxRelayouts /\ Room(1)
    /\ \E k \in DOMAIN shapes :
          shapes' = SubSeq(shapes, 1, k - 1) \o SubSeq(shapes, k + 1, Len(shapes))
    /\ relayouts' = relayouts + 1
    /\ gesture' = NoGesture
    /\ UNCHANGED <<dashVars, shapesHistory, currentIndex, guardVars, indVars, analysisVars>>

\* lines 468-474: the plotly_relayout callback of a relayout that touched
\* shapes
RelayoutCallback ==
    /\ relayouts > 0
    /\ shapesHistory' = saveState(shapes, shapesHistory, currentIndex).history
    /\ currentIndex' = saveState(shapes, shapesHistory, currentIndex).index
    /\ relayouts' = relayouts - 1
    /\ UNCHANGED <<dashVars, shapes, gesture, guardVars, indVars, analysisVars>>

\* lines 477-482: undoBtn.onclick
Undo ==
    /\ relayouts < MaxRelayouts /\ Room(1)
    /\ gesture.undos < MaxHistory
    /\ IF currentIndex > 0
       THEN /\ currentIndex' = currentIndex - 1
            /\ IF applies(shapesHistory, currentIndex - 1)
               THEN /\ shapes' = JSON_parse(shapesHistory[currentIndex])
                    /\ relayouts' = relayouts + 1
               ELSE UNCHANGED <<dashVars, shapes, relayouts>>
       ELSE UNCHANGED <<dashVars, currentIndex, shapes, relayouts>>
    /\ gesture' =
          IF gesture.undos = 0 \/ gesture.redos > 0
          THEN [undos |-> 1, redos |-> 0, depth |-> currentIndex,
                before |-> shapes, settled |-> relayouts = 0]
          ELSE [gesture EXCEPT !.undos = @ + 1,
                               !.settled = @ /\ relayouts = 0]
    /\ UNCHANGED <<dashVars, shapesHistory, guardVars, indVars, analysisVars>>

\* lines 484-489: redoBtn.onclick
Redo ==
    /\ relayouts < MaxRelayouts /\ Room(1)
    /\ gesture.redos < MaxHistory
    /\ IF currentIndex < Len(shapesHistory) - 1
       THEN /\ currentIndex' = currentIndex + 1
            /\ IF applies(shapesHistory, currentIndex + 1)
               THEN /\ shapes' = JSON_parse(shapesHistory[currentIndex + 2])
                    /\ relayouts' = relayouts + 1
               ELSE UNCHANGED <<dashVars, shapes, relayouts>>
       ELSE UNCHANGED <<dashVars, currentIndex, shapes, relayouts>>
    /\ gesture' =
          IF gesture.undos = 0 THEN gesture
          ELSE [gesture EXCEPT !.redos = @ + 1,
                               !.settled = @ /\ relayouts = 0]
    /\ UNCHANGED <<dashVars, shapesHistory, guardVars, indVars, analysisVars>>

\* lines 491-495: clearBtn.onclick: saveState, relayout to no shapes,
\* saveState
Clear ==
    /\ relayouts < MaxRelayouts /\ Room(3)
    /\ LET first  == saveState(shapes, shapesHistory, currentIndex)
           second == saveState(<<>>, first.history, first.index)
       IN  /\ shapesHistory' = second.history
           /\ currentIndex' = second.index
    /\ shapes' = <<>>
    /\ relayouts' = relayouts + 1
    /\ gesture' = NoGesture
    /\ UNCHANGED <<dashVars, guardVars, indVars, analysisVars>>

NextChart == Draw \/ Erase \/ RelayoutCallback \/ Undo \/ Redo \/ Clear

SpecChart == InitChart /\ [][NextChart]_vars

(***************************************************************************)
(* Dashboard: the events of the model                                      *)
(***************************************************************************)
\* what the user types as ticker
TickerChars == {"a", "B", " "}
TickerInputs == UNION {[1..n -> TickerChars] : n \in 0..MaxTickerLen}

\* what the user types as follow-up question: nothing, a year alone, a
\* keyword question
DashQuestions ==
    { Text(<<>>),
      Text(<<"2", "0", "3", "0">>),
      Text(<<"e", "p", "s", "U+71DF", "U+6536">>) }

\* what the data source returns: a dated price history and income table, or
\* empty frames for an unknown ticker
FetchedData ==
    { [price_history |-> Frame(<<Timestamp(2024), Timestamp(2025)>>),
       financials |-> Statements(IncomeQ(<<Timestamp(2025), Timestamp(2024)>>))],
      [price_history |-> Frame(<<>>),
       financials |-> Statements([null |-> FALSE, dataframe |-> TRUE, nrows |-> 0,
                                  has_period |-> FALSE, period |-> <<>>])] }

\* lines 122-125: a new session, waiting for the user
InitDashboard ==
    /\ analyzed = FALSE
    /\ last_symbol = <<>>
    /\ last_period = "3mo"
    /\ ticker_input = <<>>
    /\ period_input = "3mo"
    /\ analyze_clicked = FALSE
    /\ followup_clicked = FALSE
    /\ followup_shown = FALSE
    /\ run_pc = "idle"
    /\ calls = <<>>
    /\ GuardIdle
    /\ IndicatorIdle
    /\ AnalysisIdle
    /\ ChartIdle

\* the user edits the widgets and at most one button is clicked; the script
\* reruns from the top (lines 540-553) with its local variables unset.  The
\* ticker and period are edited before a click on the analyse button, the
\* follow-up question before a click on the follow-up button; the other
\* widgets keep their values
Interact ==
    /\ run_pc = "idle"
    /\ \E button \in {"none", "analyze"} \cup (IF followup_shown THEN {"followup"} ELSE {}) :
          /\ analyze_clicked' = (button = "analyze")
          /\ followup_clicked' = (button = "followup")
          /\ IF button = "analyze"
             THEN ticker_input' \in TickerInputs /\ period_input' \in Periods
             ELSE UNCHANGED <<ticker_input, period_input>>
          /\ IF button = "followup"
             THEN question' \in DashQuestions
             ELSE question' = Text(<<>>)
    /\ price_history' = NoPriceHistory
    /\ financials' = NoFinancials
    /\ review' = NoReview
    /\ calls' = <<>>
    /\ run_pc' = "session"
    /\ UNCHANGED <<sessionVars, followup_shown, indVars, analysisVars, chartVars>>

\* the session update that keeps the ticker as typed, without strip()
UpdateSession_unstripped ==
    /\ run_pc = "session"
    /\ IF analyze_clicked /\ upper(ticker_input) # <<>>
       THEN /\ analyzed' = TRUE
            /\ last_symbol' = upper(ticker_input)
            /\ last_period' = period_input
       ELSE UNCHANGED sessionVars
    /\ IF analyzed' /\ last_symbol' # <<>>
       THEN run_pc' = "load" /\ UNCHANGED followup_shown
       ELSE run_pc' = "idle" /\ followup_shown' = FALSE
    /\ UNCHANGED <<widgetVars, calls, guardVars, indVars, analysisVars, chartVars>>

\* lines 555-562 (and 868-869): the analyse button stores the cleaned ticker
\* and the period; without an analysed ticker the run ends with the prompt
UpdateSession ==
    /\ run_pc = "session"
    /\ IF analyze_clicked /\ upper(strip(ticker_input)) # <<>>
       THEN /\ analyzed' = TRUE
            /\ last_symbol' = upper(strip(ticker_input))
            /\ last_period' = period_input
       ELSE UNCHANGED sessionVars
    /\ IF analyzed' /\ last_symbol' # <<>>
       THEN run_pc' = "load" /\ UNCHANGED followup_shown
       ELSE run_pc' = "idle" /\ followup_shown' = FALSE
    /\ UNCHANGED <<widgetVars, calls, guardVars, indVars, analysisVars, chartVars>>

\* lines 566-572: the data of last_symbol is fetched
LoadData ==
    /\ run_pc = "load"
    /\ \E data \in FetchedData :
          /\ price_history' = data.price_history
          /\ financials' = data.financials
    /\ run_pc' = "summary"
    /\ UNCHANGED <<sessionVars, widgetVars, followup_shown, calls, question,
                   review, indVars, analysisVars, chartVars>>

\* lines 566-718 and 866-867: fetching or rendering raises, the run ends with
\* the error message
LoadFails ==
    /\ run_pc = "load"
    /\ run_pc' = "idle"
    /\ followup_shown' = FALSE
    /\ UNCHANGED <<sessionVars, widgetVars, calls, guardVars, indVars,
                   analysisVars, chartVars>>

\* lines 722-736: the analysis card calls generate_analysis with the fixed
\* main question and no guard_hint
MainSummary ==
    /\ run_pc = "summary"
    /\ calls' = Append(calls, Call("generate_analysis", main_question(last_period), NoHint))
    /\ run_pc' = "followup"
    /\ UNCHANGED <<sessionVars, widgetVars, followup_shown, guardVars, indVars,
                   analysisVars, chartVars>>

\* lines 760-763: the follow-up widgets are rendered, the button was not
\* clicked for this run
FollowUpSkipped ==
    /\ run_pc = "followup"
    /\ ~followup_clicked
    /\ run_pc' = "idle"
    /\ followup_shown' = TRUE
    /\ UNCHANGED <<sessionVars, widgetVars, calls, guardVars, indVars,
                   analysisVars, chartVars>>

\* lines 763-769: the follow-up button was clicked, the question is reviewed
FollowUpReview ==
    /\ run_pc = "followup"
    /\ followup_clicked
    /\ review' = review_question(question, price_history, financials)
    /\ calls' = Append(calls, Call("review_question", typed_question(question.chars), NoHint))
    /\ run_pc' = "verdict"
    /\ followup_shown' = TRUE
    /\ UNCHANGED <<sessionVars, widgetVars, question, price_history, financials,
                   indVars, analysisVars, chartVars>>

\* lines 771-772: a rejected question is answered with the verdict's message
FollowUpRejected ==
    /\ run_pc = "verdict"
    /\ review.level = "reject"
    /\ run_pc' = "idle"
    /\ UNCHANGED <<sessionVars, widgetVars, followup_shown, calls, guardVars,
                   indVars, analysisVars, chartVars>>

\* the follow-up call made without the verdict's hint
FollowUpAnswer_without_hint ==
    /\ run_pc = "verdict"
    /\ review.level # "reject"
    /\ calls' = Append(calls, Call("generate_analysis",
                                   follow_up_question(last_period, question.chars),
                                   NoHint))
    /\ run_pc' = "idle"
    /\ UNCHANGED <<sessionVars, widgetVars, followup_shown, guardVars, indVars,
                   analysisVars, chartVars>>

\* lines 773-791: any other verdict (a warning is shown first) forwards the
\* question to generate_analysis with the verdict's system_hint
FollowUpAnswer ==
    /\ run_pc = "verdict"
    /\ review.level # "reject"
    /\ calls' = Append(calls, Call("generate_analysis",
                                   follow_up_question(last_period, question.chars),
                                   Hint(review.system_hint)))
    /\ run_pc' = "idle"
    /\ UNCHANGED <<sessionVars, widgetVars, followup_shown, guardVars, indVars,
                   analysisVars, chartVars>>

NextDashboard ==
    \/ Interact \/ UpdateSession \/ LoadData \/ LoadFails \/ MainSummary
    \/ FollowUpSkipped \/ FollowUpReview \/ FollowUpRejected \/ FollowUpAnswer

SpecDashboard == InitDashboard /\ [][NextDashboard]_vars

(***************************************************************************)
(* Claims about the Question Guard (checked under SpecGuard)               *)
(***************************************************************************)
\* the verdict is none of the three rejections
Admitted == Reviewed /\ review.level \notin {"reject", "raised"}

\* the 4-digit years written in a text: every place where 19dd or 20dd stands
FullYearsIn(s) ==
    {ParseInt(SubSeq(s, i, i + 3)) : i \in {k \in DOMAIN s : YEAR_RE_matchAt(s, k)}}

DataYears == data_years(price_history, financials)

\* the parts of the verdict's message that are the year-range sentence
YearRangeParts ==
    {review.message[i] : i \in {k \in DOMAIN review.message :
                                   review.message[k].kind = "msg_year_range"}}

\* C1 (as claimed): whenever an admitted question contains a 4-digit year Y
\* that lies below the minimum m or above the maximum M of a non-empty set of
\* data years, the verdict is warn and its message lists Y itself as out of
\* range, together with the range m..M.
C1_OutOfRangeYearListed ==
    Admitted /\ DataYears # <<>> =>
        \A Y \in FullYearsIn(cleaned) :
            (Y < SeqMin(DataYears) \/ Y > SeqMax(DataYears)) =>
                /\ review.level = "warn"
                /\ \E part \in YearRangeParts :
                      /\ Y \in Range(part.years)
                      /\ part.lo = SeqMin(DataYears)
                      /\ part.hi = SeqMax(DataYears)

\* a finance keyword stands in the text: a Chinese one as written, an English
\* one in any letter case
KeywordAt(s, kw, i, fold) ==
    /\ i + Len(kw) - 1 <= Len(s)
    /\ \A j \in DOMAIN kw :
          (IF fold THEN LowerChar(s[i + j - 1]) ELSE s[i + j - 1]) = kw[j]

HasKeyword(s) ==
    \/ \E k \in DOMAIN FIN_KW_ZH : \E i \in DOMAIN s : KeywordAt(s, FIN_KW_ZH[k], i, FALSE)
    \/ \E k \in DOMAIN FIN_KW_EN : \E i \in DOMAIN s : KeywordAt(s, FIN_KW_EN[k], i, TRUE)

\* C2 (as claimed): an admitted question that contains a finance keyword and
\* whose every 4-digit year lies inside [min, max] of the data years gets no
\* year-range warning and the verdict ok.
C2_InRangeYearsOk ==
    Admitted /\ HasKeyword(cleaned) /\ DataYears # <<>>
             /\ (\A Y \in FullYearsIn(cleaned) :
                    SeqMin(DataYears) <= Y /\ Y <= SeqMax(DataYears))
        => review.level = "ok" /\ YearRangeParts = {}

\* str.strip() of the raw question: only the ends change
Trimmed == IF question.null THEN <<>> ELSE strip(question.chars)

RejectedAs(reason) == review.level = "reject" /\ review.reason = reason

\* C7 (as claimed): the verdict is reject/too_short exactly when the question
\* with only its leading and trailing whitespace removed has 1 to 3 characters.
C7_TooShortByTrimmedLength ==
    Reviewed => (RejectedAs("too_short") <=> Len(Trimmed) \in 1..3)

\* C7 (amended): the verdict is reject/too_short exactly when the cleaned
\* question (line breaks turned into spaces, every run of whitespace collapsed
\* to one space, then the ends stripped) has 1 to 3 characters; a cleaned
\* length of 4 or more is never too_short, and an empty, null or
\* whitespace-only question is rejected as empty.
C7_TooShortByCleanedLength ==
    Reviewed =>
        /\ RejectedAs("too_short") <=> Len(cleaned) \in 1..3
        /\ Len(Trimmed) = 0 => RejectedAs("empty")

\* C7 witness: a question of 4 or more trimmed characters that is too_short
C7_Witness ==
    Reviewed /\ RejectedAs("too_short") /\ Len(Trimmed) >= 4 /\ Len(cleaned) = 3

\* the number of Latin letters, digits and CJK ideographs of a text
AlnumCount(s) == Cardinality({i \in DOMAIN s : s[i] \in AlphaNumZhClass})

C9_EmptyRejected ==
    Reviewed /\ (question.null \/ \A i \in DOMAIN question.chars :
                                     question.chars[i] \in Whitespace)
        => review = Verdict("reject", "empty", MSG_EMPTY, <<>>)

\* C9 witness: a whitespace-only question, with data supplied, rejected as empty
C9_Witness ==
    /\ Reviewed
    /\ ~question.null
    /\ Len(question.chars) >= 2
    /\ \A i \in DOMAIN question.chars : question.chars[i] \in Whitespace
    /\ DataYears # <<>>
    /\ RejectedAs("empty")

HasPart(text, kind) == \E i \in DOMAIN text : text[i].kind = kind

\* C10: an admitted question without any keyword (English ones compared
\* case-insensitively) gets the verdict warn with the no-finance-keyword
\* message and its downstream hint; a question that contains a keyword in any
\* letter case never gets that message or hint.
C10_NoKeywordWarns ==
    Admitted =>
        /\ ~HasKeyword(cleaned) =>
              /\ review.level = "warn"
              /\ HasPart(review.message, "msg_no_fin_kw")
              /\ HasPart(review.system_hint, "hint_no_fin_kw")
        /\ HasKeyword(cleaned) =>
              /\ ~HasPart(review.message, "msg_no_fin_kw")
              /\ ~HasPart(review.system_hint, "hint_no_fin_kw")

\* C10 witness: an admitted question without a keyword, warned for that alone
C10_Witness ==
    /\ Admitted
    /\ ~HasKeyword(cleaned)
    /\ review.level = "warn"
    /\ review.message = MSG_NO_FIN_KW
    /\ review.system_hint = HINT_NO_FIN_KW

(***************************************************************************)
(* Claims about the Indicator Engine (checked under SpecIndicators)        *)
(***************************************************************************)
Momentum  == indicators.momentum
Valuation == indicators.valuation

\* the field of the n-bar lookback return
ReturnField(n) ==
    IF n = OneMonthBars THEN Momentum.oneMonthReturn ELSE Momentum.threeMonthReturn

\* the value v is last / base - 1
IsReturnOf(v, last, base) ==
    v.tag = "num" /\ (v.num + v.den) * base = last * v.den

\* C3: for n = 22 (oneMonthReturn) and n = 66 (threeMonthReturn) the field is
\* null when the series has fewer than n bars and otherwise equals
\* close[last] / close[n-th bar from the end] - 1.
C3_LookbackReturns ==
    Returned =>
        \A n \in {OneMonthBars, ThreeMonthBars} :
            IF hist.len < n THEN ReturnField(n) = None
            ELSE IsReturnOf(ReturnField(n), hist.Close[hist.len],
                            hist.Close[hist.len - n + 1])

\* C3 witness: a series of exactly 66 bars whose 66th bar from the end differs
\* from the last: threeMonthReturn is a non-zero number
C3_Witness ==
    /\ Returned
    /\ hist.len = ThreeMonthBars
    /\ Momentum.threeMonthReturn.tag = "num"
    /\ Momentum.threeMonthReturn.num # 0
    /\ Momentum.oneMonthReturn.tag = "num"

\* C4 (as claimed): the call never raises; whatever columns and keys are
\* absent and however short the series is, it returns a result in which
\* exactly the fields whose precondition is missing are null.
C4_NeverRaises ==
    Computed =>
        /\ indicators.status = "returned"
        /\ Valuation.latestPrice = None <=> (hist.len = 0 \/ "Close" \notin hist.columns)
        /\ Momentum.oneMonthReturn = None <=>
              (hist.len < OneMonthBars \/ "Close" \notin hist.columns)
        /\ Momentum.threeMonthReturn = None <=>
              (hist.len < ThreeMonthBars \/ "Close" \notin hist.columns)
        /\ Momentum.volatility3m = None <=> (hist.len <= 2 \/ "Close" \notin hist.columns)
        /\ Momentum.high3m = None <=> "High" \notin hist.columns
        /\ Momentum.low3m = None <=> "Low" \notin hist.columns
        /\ \A key \in {"trailingPE", "forwardPE", "priceToBook"} :
              Valuation[key] = None <=> key \notin DOMAIN info

\* C5 (as claimed): on a series of zero bars latestPrice and all five momentum
\* fields are null, whether or not the columns are present.
C5_EmptySeriesAllNull ==
    Computed /\ hist.len = 0 =>
        /\ Returned
        /\ Valuation.latestPrice = None
        /\ \A f \in DOMAIN Momentum : Momentum[f] = None

\* C5 (amended): on a series of zero bars the call returns; latestPrice,
\* oneMonthReturn, threeMonthReturn and volatility3m are null; high3m (low3m)
\* is null when the High (Low) column is absent and NaN, not null, when the
\* column is present.
C5_EmptySeriesNullOrNaN ==
    Computed /\ hist.len = 0 =>
        /\ Returned
        /\ Valuation.latestPrice = None
        /\ Momentum.oneMonthReturn = None
        /\ Momentum.threeMonthReturn = None
        /\ Momentum.volatility3m = None
        /\ Momentum.high3m = (IF "High" \in hist.columns THEN NaN ELSE None)
        /\ Momentum.low3m = (IF "Low" \in hist.columns THEN NaN ELSE None)

\* C5 witness: a frame of zero bars that has all three columns
C5_Witness == Returned /\ hist.len = 0 /\ hist.columns = Columns

\* the bars of the last min(66, len)
LastBars == {i \in 1..hist.len : i > hist.len - ThreeMonthBars}

\* C6: high3m is the maximum of the last min(66, len) High values and low3m
\* the minimum of the last min(66, len) Low values (NaN when there is no bar);
\* each is null exactly when its column is absent.
C6_HighLowOfLastBars ==
    Returned =>
        /\ Momentum.high3m = None <=> "High" \notin hist.columns
        /\ Momentum.low3m = None <=> "Low" \notin hist.columns
        /\ "High" \in hist.columns /\ hist.len > 0 =>
              /\ Momentum.high3m.tag = "num" /\ Momentum.high3m.den = 1
              /\ \E i \in LastBars : hist.High[i] = Momentum.high3m.num
              /\ \A i \in LastBars : hist.High[i] <= Momentum.high3m.num
        /\ "Low" \in hist.columns /\ hist.len > 0 =>
              /\ Momentum.low3m.tag = "num" /\ Momentum.low3m.den = 1
              /\ \E i \in LastBars : hist.Low[i] = Momentum.low3m.num
              /\ \A i \in LastBars : hist.Low[i] >= Momentum.low3m.num
        /\ "High" \in hist.columns /\ hist.len = 0 => Momentum.high3m = NaN
        /\ "Low" \in hist.columns /\ hist.len = 0 => Momentum.low3m = NaN

\* C6 witness: a series longer than 66 bars whose highest High is older than
\* the last 66 bars and does not show in high3m
C6_Witness ==
    /\ Returned
    /\ hist.len > ThreeMonthBars
    /\ hist.columns = Columns
    /\ Momentum.high3m.tag = "num"
    /\ \E i \in 1..hist.len : i \notin LastBars /\ hist.High[i] > Momentum.high3m.num

(***************************************************************************)
(* More claims about the Question Guard (checked under SpecGuard)          *)
(***************************************************************************)
Kinds(text) == [i \in DOMAIN text |-> text[i].kind]

\* the two warnings the request calls for
ExpectKeywordWarning == ~HasKeyword(cleaned)
ExpectYearWarning    == YearWarning(cleaned, price_history, financials)

\* C11: for an admitted question the level is ok exactly when no warning was
\* accumulated, and then message and system_hint are empty; otherwise the
\* level is warn, message is the warnings joined by a double newline and
\* system_hint the hints joined by a single newline, the keyword entry before
\* the year-range entry, as many messages as hints.
C11_VerdictAssembly ==
    Admitted =>
        /\ review.level = "ok" <=> (~ExpectKeywordWarning /\ ~ExpectYearWarning)
        /\ review.level = "ok" =>
              review.reason = "pass" /\ review.message = <<>> /\ review.system_hint = <<>>
        /\ review.level # "ok" => review.level = "warn"
        /\ Kinds(review.message) =
              CASE ExpectKeywordWarning /\ ExpectYearWarning ->
                       <<"msg_no_fin_kw", "\n\n", "msg_year_range">>
                [] ExpectKeywordWarning /\ ~ExpectYearWarning -> <<"msg_no_fin_kw">>
                [] ~ExpectKeywordWarning /\ ExpectYearWarning -> <<"msg_year_range">>
                [] OTHER -> <<>>
        /\ Kinds(review.system_hint) =
              CASE ExpectKeywordWarning /\ ExpectYearWarning ->
                       <<"hint_no_fin_kw", "\n", "hint_year_range">>
                [] ExpectKeywordWarning /\ ~ExpectYearWarning -> <<"hint_no_fin_kw">>
                [] ~ExpectKeywordWarning /\ ExpectYearWarning -> <<"hint_year_range">>
                [] OTHER -> <<>>

\* C11 witness: a verdict that carries both warnings
C11_Witness ==
    /\ Admitted
    /\ review.level = "warn"
    /\ Len(review.message) = 3
    /\ Len(review.system_hint) = 3

\* the question passes the empty, length and gibberish checks
PassesFirstChecks ==
    Len(cleaned) > 3 /\ 20 * AlnumCount(cleaned) >= 7 * Len(cleaned)

\* C12: a reject comes only from the empty, length and gibberish checks, so
\* its reason is empty, too_short or gibberish; a question that passes those
\* three checks gets ok or warn, whatever price history and statements come
\* with it.
C12_RejectOnlyByFirstChecks ==
    Reviewed =>
        /\ review.level \in {"ok", "warn", "reject"}
        /\ review.level = "reject" => review.reason \in {"empty", "too_short", "gibberish"}
        /\ PassesFirstChecks => review.level \in {"ok", "warn"}
        /\ ~PassesFirstChecks => review.level = "reject"

\* C12 witness: a question that passes the three checks, with years outside
\* the data, is warned and not rejected
C12_Witness ==
    /\ Reviewed
    /\ PassesFirstChecks
    /\ DataYears # <<>>
    /\ YearRangeParts # {}
    /\ review.level = "warn"

(***************************************************************************)
(* Claims about the statements argument (checked under SpecStatements)     *)
(***************************************************************************)
\* the period labels the call reads
PeriodsRead ==
    IF /\ ~financials.null /\ financials.dict /\ "income_q" \in financials.keys
       /\ ~financials.income_q.null /\ financials.income_q.dataframe
       /\ financials.income_q.nrows > 0 /\ financials.income_q.has_period
    THEN financials.income_q.period ELSE <<>>

\* the year a label stands for: its calendar year when it is a date, the
\* 4-digit year embedded in its text otherwise, 0 when it has none
LabelYear(p) ==
    CASE p.kind = "Timestamp" -> p.year
      [] p.kind = "str" /\ YEAR_RE_search(p.chars) # <<>> -> ParseInt(YEAR_RE_search(p.chars))
      [] OTHER -> 0

\* C13 (as claimed): every period label contributes its year to the data
\* years, a date its calendar year and a text label its embedded 4-digit
\* year, so the range printed by the year-range warning covers it.
C13_LabelsContributeYears ==
    Admitted =>
        \A i \in DOMAIN PeriodsRead :
            LabelYear(PeriodsRead[i]) # 0 =>
                /\ LabelYear(PeriodsRead[i]) \in Range(DataYears)
                /\ \A part \in YearRangeParts :
                      part.lo <= LabelYear(PeriodsRead[i])
                          /\ LabelYear(PeriodsRead[i]) <= part.hi

\* C14 (as claimed): whatever the shape of the statements argument and of its
\* period entries, the call returns a verdict, and an entry that fails to
\* give a year contributes none.
C14_NeverPropagates ==
    Reviewed =>
        /\ review.level \in {"ok", "warn", "reject"}
        /\ \A y \in Range(FinancialYears(financials)) :
              \E i \in DOMAIN PeriodsRead : LabelYear(PeriodsRead[i]) = y

\* C15: the year-range warning (message and hint) is produced only when the
\* question holds a 19xx/20xx year and the data years are not empty.
C15_YearWarningNeedsBoth ==
    (Admitted /\ (YearRangeParts # {} \/ HasPart(review.system_hint, "hint_year_range")))
        => (FullYearsIn(cleaned) # {} /\ DataYears # <<>>)

\* C15 witness: a question with a year, with statements that yield no year
\* and no price history: no year-range warning
C15_Witness ==
    /\ Admitted
    /\ FullYearsIn(cleaned) # {}
    /\ financials # NoFinancials
    /\ DataYears = <<>>
    /\ YearRangeParts = {}
    /\ ~HasPart(review.system_hint, "hint_year_range")

(***************************************************************************)
(* Further claims about the Indicator Engine (checked under SpecIndicators)*)
(***************************************************************************)
\* the i-th bar-to-bar change of Close, as the pair change / base
IsChangeOf(v, i) ==
    /\ v.tag = "num"
    /\ v.den # 0
    /\ v.num * hist.Close[i] = (hist.Close[i + 1] - hist.Close[i]) * v.den

\* C16: volatility3m is null exactly when the series has 2 bars or fewer;
\* with more than 2 bars it is the sample standard deviation of all the
\* bar-to-bar percentage changes of Close of the whole series, one per pair of
\* consecutive bars, however long the series is.
C16_VolatilityWholeSeries ==
    Returned =>
        /\ (Momentum.volatility3m = None) <=> (hist.len <= 2)
        /\ hist.len > 2 =>
              /\ Momentum.volatility3m.tag = "std"
              /\ Len(Momentum.volatility3m.sample) = hist.len - 1
              /\ \A i \in 1..(hist.len - 1) :
                    IsChangeOf(Momentum.volatility3m.sample[i], i)

\* C16 witness: a series longer than 66 bars whose only price move lies
\* before the last 66 bars, and the move is in the sample
C16_Witness ==
    /\ Returned
    /\ hist.len > ThreeMonthBars
    /\ hist.Close[1] # 100
    /\ \A i \in 2..hist.len : hist.Close[i] = 100
    /\ Momentum.volatility3m.tag = "std"
    /\ Momentum.volatility3m.sample[1].num # 0

ValuationKeys == {"trailingPE", "forwardPE", "priceToBook"}

\* C17: trailingPE, forwardPE and priceToBook are the values stored under
\* those keys in the fundamentals mapping, null when the key is absent; with
\* a series that is not empty latestPrice is the Close of the last bar.
C17_ValuationPassThrough ==
    Returned =>
        /\ \A key \in ValuationKeys :
              Valuation[key] = IF key \in DOMAIN info THEN info[key] ELSE None
        /\ (hist.len > 0 /\ "Close" \in hist.columns) =>
              Valuation.latestPrice = Num(hist.Close[hist.len])

\* C17 witness: fundamentals with trailingPE only, and a series with bars
C17_Witness ==
    /\ Returned
    /\ DOMAIN info = {"trailingPE"}
    /\ hist.len > 0 /\ "Close" \in hist.columns
    /\ Valuation.trailingPE = Num(25)
    /\ Valuation.forwardPE = None
    /\ Valuation.latestPrice.tag = "num"

\* C19: the step that produces the indicators leaves the price series and the
\* fundamentals mapping as they were.
C19_InputsUnchanged ==
    [][indicators' # indicators => (hist' = hist /\ info' = info)]_vars

\* C19 witness: the call has returned on a series too short for the lookback
\* returns and fundamentals with a key missing, and fields degraded to null
C19_Witness ==
    /\ Returned
    /\ hist.len > 0 /\ hist.len < OneMonthBars
    /\ "forwardPE" \notin DOMAIN info
    /\ Momentum.oneMonthReturn = None
    /\ Valuation.forwardPE = None

(***************************************************************************)
(* Claims about the AI analysis (checked under SpecAnalysis)               *)
(***************************************************************************)
\* the returned text is the template filled in for this call's symbol,
\* indicators and question
IsTemplateOfCall ==
    /\ analysis.kind = "template"
    /\ analysis.symbol = symbol
    /\ analysis.latest_price = Valuation.latestPrice
    /\ analysis.pe = Valuation.trailingPE
    /\ analysis.fpe = Valuation.forwardPE
    /\ (analysis.one_m.tag = "N/A") <=> (Momentum.oneMonthReturn = None)
    /\ (analysis.three_m.tag = "N/A") <=> (Momentum.threeMonthReturn = None)
    /\ (analysis.trend = "-") <=> (Momentum.threeMonthReturn = None)
    /\ analysis.question_part =
          (IF user_question.null THEN <<>> ELSE user_question.chars)

NoModelOrKey == model.null \/ GOOGLE_API_KEY.null \/ GOOGLE_API_KEY.chars = <<>>

\* C20: without a model or without a key the call returns the template for
\* its symbol, indicators and question and the LLM is not called; the LLM is
\* called at most once; and a call that has ended returned either the
\* LLM's text after exactly one call, or the template (after a call that
\* raised, or after none).
C20_DegradesToTemplate ==
    /\ llm_calls <= 1
    /\ NoModelOrKey => llm_calls = 0
    /\ pc = "done" =>
          /\ NoModelOrKey => IsTemplateOfCall
          /\ analysis.kind = "llm" => llm_calls = 1
          /\ analysis.kind # "llm" => IsTemplateOfCall

\* C20 witness: the LLM was called once with a model and a key, the call
\* raised, and the template with the user's question was returned
C20_Witness ==
    /\ pc = "done"
    /\ ~NoModelOrKey
    /\ llm_calls = 1
    /\ analysis.kind = "template"
    /\ analysis.question_part # <<>>
    /\ analysis.trend = "falling"

(***************************************************************************)
(* Claims about the chart drawing history (checked under SpecChart)        *)
(***************************************************************************)
\* the user clicked Undo k times, each able to step back, then Redo k times,
\* every click made when no callback was waiting, and the callbacks have run
UndoneAndRedone ==
    /\ gesture.undos >= 1
    /\ gesture.undos <= gesture.depth
    /\ gesture.redos = gesture.undos
    /\ gesture.settled
    /\ relayouts = 0

\* C22 (as claimed): after k >= 1 Undo clicks followed, with no drawing in
\* between, by k Redo clicks, the shapes shown are those shown before the
\* first Undo.
C22_RedoRestoresUndone == UndoneAndRedone => shapes = gesture.before

\* C23 (as claimed): shapesHistory is never empty, currentIndex stays within
\* 0 .. length - 1, and no two adjacent snapshots are equal.
C23_HistoryWellFormed ==
    /\ Len(shapesHistory) >= 1
    /\ 0 <= currentIndex /\ currentIndex <= Len(shapesHistory) - 1
    /\ \A k \in 1..(Len(shapesHistory) - 1) : shapesHistory[k] # shapesHistory[k + 1]

(***************************************************************************)
(* Claims about the dashboard (checked under SpecDashboard)                *)
(***************************************************************************)
\* a text with a character in it, none of them a lower-case letter, and no
\* whitespace at either end
CleanTicker(t) ==
    /\ t # <<>>
    /\ t[1] \notin Whitespace
    /\ t[Len(t)] \notin Whitespace
    /\ \A i \in DOMAIN t : t[i] \notin Range(LowerLetters)

\* the typed ticker is blank: empty or whitespace only
Blank(t) == \A i \in DOMAIN t : t[i] \in Whitespace

\* one of 3mo, 6mo, 1y
KnownPeriod(p) == p = "3mo" \/ p = "6mo" \/ p = "1y"

\* C24, first part: the stored ticker and period of an analysed session
C24_SessionStateValid ==
    analyzed => (CleanTicker(last_symbol) /\ KnownPeriod(last_period))

\* C24, second part: a click with a blank ticker changes no session value
C24_BlankClickIgnored ==
    (run_pc = "session" /\ analyze_clicked /\ Blank(ticker_input))
        => (analyzed' = analyzed /\ last_symbol' = last_symbol
                /\ last_period' = last_period)

\* C24, third part: analyzed is never reset
C24_AnalyzedStays == analyzed => analyzed'

\* C24: whenever analyzed is true, last_symbol is a non-empty, stripped,
\* upper-cased ticker and last_period is one of 3mo, 6mo, 1y; a click on the
\* analyse button with a blank ticker changes none of the three; and analyzed,
\* once true, stays true.
C24_SessionState ==
    /\ []C24_SessionStateValid
    /\ [][C24_BlankClickIgnored /\ C24_AnalyzedStays]_vars

\* C24 witness: the analyse button was clicked with a ticker typed in lower
\* case or with spaces around it and a period other than the default, and the
\* session holds the cleaned ticker and that period
C24_Witness ==
    /\ analyzed
    /\ analyze_clicked
    /\ run_pc = "load"
    /\ ticker_input # last_symbol
    /\ \E i \in DOMAIN ticker_input : ticker_input[i] \in Whitespace
    /\ \E i \in DOMAIN ticker_input : ticker_input[i] \in Range(LowerLetters)
    /\ last_period = period_input
    /\ last_period # "3mo"

\* the positions in the run's calls of the calls of generate_analysis made
\* for the follow-up question, and of the calls of review_question
FollowUpCalls ==
    {i \in DOMAIN calls : /\ calls[i].fn = "generate_analysis"
                          /\ calls[i].user_question.kind = "follow_up"}
ReviewCalls == {i \in DOMAIN calls : calls[i].fn = "review_question"}

\* the follow-up call is made if and only if the verdict is not reject (a
\* warn verdict does not block it), once and with the typed question
FollowUpIffNotRejected ==
    /\ FollowUpCalls # {} => (Reviewed /\ review.level # "reject")
    /\ (run_pc = "idle" /\ Reviewed) =>
          /\ review.level # "reject" => Cardinality(FollowUpCalls) = 1
          /\ review.level = "warn" => FollowUpCalls # {}
    /\ \A i \in FollowUpCalls : calls[i].user_question.q = question.chars

\* the guard_hint of the follow-up call is the verdict's system_hint
HintIsSystemHint ==
    \A i \in FollowUpCalls :
        ~calls[i].guard_hint.null /\ calls[i].guard_hint.parts = review.system_hint

\* C21 (as claimed): in a run started by submitting a follow-up question,
\* review_question is called before any call of generate_analysis; the
\* follow-up call is made exactly when the verdict is not reject; and it is
\* given the verdict's system_hint.
C21_ReviewBeforeAnyAnalysis ==
    /\ followup_clicked =>
          \A i \in DOMAIN calls :
              calls[i].fn = "generate_analysis" => \E j \in ReviewCalls : j < i
    /\ FollowUpIffNotRejected
    /\ HintIsSystemHint

\* C21 (amended): in a run started by submitting a follow-up question,
\* review_question is called before the call of generate_analysis that
\* carries the follow-up question (the analysis card's own call of
\* generate_analysis, with the fixed main question, comes earlier in every
\* run); the follow-up call is made exactly when the verdict is not reject;
\* and it is given the verdict's system_hint.
C21_ReviewBeforeFollowUpAnalysis ==
    /\ \A i \in FollowUpCalls : followup_clicked /\ \E j \in ReviewCalls : j < i
    /\ FollowUpIffNotRejected
    /\ HintIsSystemHint

\* C21 witness: a submitted question got a warn verdict with a hint, and the
\* run ended after forwarding it, the analysis card's call having come first
C21_Witness ==
    /\ run_pc = "idle"
    /\ followup_clicked
    /\ review.level = "warn"
    /\ review.system_hint # <<>>
    /\ Len(calls) = 3
    /\ calls[1].fn = "generate_analysis"
    /\ calls[2].fn = "review_question"
    /\ FollowUpCalls = {3}

====
